---- MODULE Spec2Model ----
(***************************************************************************)
(* Super Simple Stocks (jp_morgan.cpp): the command loop of main, the      *)
(* command dispatcher process_command, the trade database trade_db and the *)
(* GBCE index (class the_index over class stock).                          *)
(*                                                                         *)
(* Text is modelled as sequences of one-character strings, so that the     *)
(* tokenizer and the atoi/atof conversions are computed, not assumed.      *)
(* A double is modelled as an exact fraction [n, d] in lowest terms with   *)
(* d > 0; d = 0 encodes the IEEE specials: 0/0 is NaN, 1/0 is +infinity    *)
(* and -1/0 is -infinity.  Rounding and the sign of zero are not modelled. *)
(***************************************************************************)
EXTENDS Integers, Sequences, FiniteSets, TLC

(* ------------------------------ bounds -------------------------------- *)

\* The input holds at most this many lines.
MaxLines == 3

\* The wall clock (seconds since the program started) stops at this value.
MaxTime == 901

(* --------------------------- program constants ------------------------ *)

FIFTEEN_MINS == 900

COMMON_STOCK == 0

PREF_STOCK == 1

BUY_STOCK == 0

SELL_STOCK == 1

(* ------------------------------ doubles ------------------------------- *)

\* Body(v) with v evaluated once, before Body is applied: a loop hands the
\* value of its accumulator, not the expression for it, to its next round.
Then(v, Body(_)) == CHOOSE r \in {Body(x) : x \in {v}} : TRUE

Abs(i) == IF i < 0 THEN 0 - i ELSE i

Sgn(i) == IF i < 0 THEN 0 - 1 ELSE IF i > 0 THEN 1 ELSE 0

RECURSIVE Gcd(_, _)
Gcd(a, b) == IF b = 0 THEN a ELSE Gcd(b, a % b)

NaN == [n |-> 0, d |-> 0]

Inf(s) == [n |-> s, d |-> 0]

\* The fraction n/d, d > 0, in lowest terms.
Frac(n, d) ==
    LET g == Gcd(Abs(n), d)
    IN  [n |-> n \div g, d |-> d \div g]

Dbl(i) == [n |-> i, d |-> 1]

IsNaN(x) == x.d = 0 /\ x.n = 0

IsInf(x) == x.d = 0 /\ x.n # 0

\* x * y on doubles.
DMul(x, y) ==
    IF IsNaN(x) \/ IsNaN(y) THEN NaN
    ELSE IF IsInf(x) \/ IsInf(y)
         THEN IF x.n = 0 \/ y.n = 0 THEN NaN ELSE Inf(Sgn(x.n) * Sgn(y.n))
         ELSE Frac(x.n * y.n, x.d * y.d)

\* x + y on doubles.
DAdd(x, y) ==
    IF IsNaN(x) \/ IsNaN(y) THEN NaN
    ELSE IF IsInf(x) /\ IsInf(y) THEN (IF x.n = y.n THEN x ELSE NaN)
    ELSE IF IsInf(x) THEN x
    ELSE IF IsInf(y) THEN y
    ELSE Frac(x.n * y.d + y.n * x.d, x.d * y.d)

\* x / y on doubles: 0/0 is NaN, a nonzero x over 0 is an infinity.
DDiv(x, y) ==
    IF IsNaN(x) \/ IsNaN(y) THEN NaN
    ELSE IF IsInf(x) THEN (IF IsInf(y) THEN NaN
                           ELSE Inf(Sgn(x.n) * (IF y.n < 0 THEN 0 - 1 ELSE 1)))
    ELSE IF IsInf(y) THEN Dbl(0)
    ELSE IF y.n = 0 THEN (IF x.n = 0 THEN NaN ELSE Inf(Sgn(x.n)))
    ELSE Frac(Sgn(y.n) * x.n * y.d, x.d * Abs(y.n))

\* x < 0 on doubles: false for NaN.
DNeg(x) == x.n < 0

\* The truth value of a double in a condition, if(x): NaN counts as true.
DTrue(x) == x.n # 0 \/ x.d = 0

(* -------------------------------- text -------------------------------- *)

SP == " "

Digits == <<"0", "1", "2", "3", "4", "5", "6", "7", "8", "9">>

IsDigit(c) == \E k \in 1..10 : Digits[k] = c

DigitVal(c) == (CHOOSE k \in 1..10 : Digits[k] = c) - 1

\* The first index at or after i that holds no decimal digit.
RECURSIVE DigitRun(_, _)
DigitRun(s, i) ==
    IF i <= Len(s) /\ IsDigit(s[i]) THEN DigitRun(s, i + 1) ELSE i

\* The number written by the digits s[i], ..., s[j-1].
RECURSIVE NatOf(_, _, _, _)
NatOf(s, i, j, acc) ==
    IF i >= j THEN acc ELSE NatOf(s, i + 1, j, 10 * acc + DigitVal(s[i]))

RECURSIVE Pow10(_)
Pow10(k) == IF k = 0 THEN 1 ELSE 10 * Pow10(k - 1)

\* Whether s holds the characters of w from index i on.
HasAt(s, i, w) ==
    /\ i + Len(w) - 1 <= Len(s)
    /\ \A k \in 1..Len(w) : s[i + k - 1] = w[k]

\* The index after an optional sign at i.
AfterSign(s, i) ==
    IF i <= Len(s) /\ s[i] \in {"-", "+"} THEN i + 1 ELSE i

\* atoi: an optional sign and the longest run of digits; 0 when there is none.
\* (A value outside int is undefined in C; the inputs of the model are small.)
atoi(s) ==
    LET i == AfterSign(s, 1)
        v == NatOf(s, i, DigitRun(s, i), 0)
    IN  IF HasAt(s, 1, <<"-">>) THEN 0 - v ELSE v

\* atof: an optional sign, then "nan", "inf", or digits with an optional
\* fraction; 0.0 when no number starts the text.  (Exponents and hexadecimal
\* forms, which strtod also reads, do not occur in the inputs of the model.)
atof(s) ==
    LET i   == AfterSign(s, 1)
        sg  == IF HasAt(s, 1, <<"-">>) THEN 0 - 1 ELSE 1
        j   == DigitRun(s, i)
        dot == j <= Len(s) /\ s[j] = "."
        k   == IF dot THEN DigitRun(s, j + 1) ELSE j
        m   == IF dot THEN k - (j + 1) ELSE 0
    IN  IF HasAt(s, i, <<"n", "a", "n">>) THEN NaN
        ELSE IF HasAt(s, i, <<"i", "n", "f">>) THEN Inf(sg)
        ELSE IF j = i /\ m = 0 THEN Dbl(0)
        ELSE Frac(sg * (NatOf(s, i, j, 0) * Pow10(m) + NatOf(s, j + 1, k, 0)),
                  Pow10(m))

\* The token loop of process_command, while (getline(f, s, ' ')): the pieces
\* of the line between single spaces; a final empty piece is not a token.
RECURSIVE Tokens(_, _, _, _)
Tokens(line, i, cur, acc) ==
    IF i > Len(line)
    THEN (IF cur = <<>> THEN acc ELSE Append(acc, cur))
    ELSE IF line[i] = SP
         THEN Tokens(line, i + 1, <<>>, Append(acc, cur))
         ELSE Tokens(line, i + 1, Append(cur, line[i]), acc)

Split(line) == Tokens(line, 1, <<>>, <<>>)

\* The words of ws with one space between them.
RECURSIVE Join(_)
Join(ws) ==
    IF Len(ws) = 0 THEN <<>>
    ELSE IF Len(ws) = 1 THEN ws[1]
    ELSE ws[1] \o <<SP>> \o Join(Tail(ws))

(* --------------------------- console input ---------------------------- *)

W_quit == <<"q", "u", "i", "t">>

W_help == <<"h", "e", "l", "p">>

W_index == <<"i", "n", "d", "e", "x">>

W_trade == <<"t", "r", "a", "d", "e">>

W_buy == <<"b", "u", "y">>

W_sell == <<"s", "e", "l", "l">>

W_list == <<"l", "i", "s", "t">>

W_price == <<"p", "r", "i", "c", "e">>

W_yield == <<"y", "i", "e", "l", "d">>

W_pe == <<"p", "e">>

W_now == <<"n", "o", "w">>

S_TEA == <<"T", "E", "A">>

S_POP == <<"P", "O", "P">>

S_ALE == <<"A", "L", "E">>

S_GIN == <<"G", "I", "N">>

S_JOE == <<"J", "O", "E">>

S_ZZZ == <<"Z", "Z", "Z">>

T_0 == <<"0">>

T_1 == <<"1">>

T_5 == <<"5">>

T_m1 == <<"-", "1">>

T_3_00 == <<"3", ".", "0", "0">>

T_1_5 == <<"1", ".", "5">>

T_m1_0 == <<"-", "1", ".", "0">>

T_nan == <<"n", "a", "n">>

\* Lines that read or print only, or that no command matches.
PlainLines ==
    { Join(<<W_help>>), Join(<<W_index>>), Join(<<W_list>>), Join(<<W_price>>),
      Join(<<W_yield>>), Join(<<W_pe>>), <<>>, <<SP>> \o W_quit }

QuitLines == { Join(<<W_quit>>), Join(<<W_quit, W_now>>) }

TradeLines == { Join(<<W_trade>>) }

\* buy and sell lines: well formed ones, and ones with a negative quantity, a
\* negative price, an unknown symbol, too few fields, or a doubled space.
BuySellLines ==
    { Join(<<W_buy, T_5, S_ALE, T_3_00>>),
      Join(<<W_buy, T_1, S_TEA, T_0>>),
      Join(<<W_sell, T_0, S_POP, T_1_5>>),
      Join(<<W_buy, T_1, S_GIN, T_nan>>),
      Join(<<W_buy, T_m1, S_ALE, T_3_00>>),
      Join(<<W_sell, T_1, S_ALE, T_m1_0>>),
      Join(<<W_buy, T_5, S_ZZZ, T_3_00>>),
      Join(<<W_buy, T_5, S_ALE>>),
      Join(<<W_buy, T_5, <<>>, S_ALE, T_3_00>>) }

Lines == PlainLines \cup QuitLines \cup TradeLines \cup BuySellLines

\* Seconds the blocking read of a line may take.
Delays == {0, 900, 901}

\* rand() is never seeded, so the values it returns are one fixed sequence,
\* which the C library chooses; these are the sequences the model tries.  A
\* sequence is read cyclically.
RandSeqs ==
    { << 1, 0, 59,   2, 1, 159,   1, 2, 9,     0, 0, 59,   1, 1, 259,
         0, 1, 9,    1, 0, 159,   0, 0, 259,   1, 2, 159,  0, 0, 9 >>,
      << 0, 1, 159,  1, 0, 9,     0, 0, 59,    1, 1, 259,  0, 2, 59,
         1, 0, 59,   0, 2, 259,   1, 1, 9,     0, 0, 159,  1, 0, 259 >> }

(* ------------------------------- state -------------------------------- *)

VARIABLES
    pc,         \* main: "read" before getline, "proc" before process_command, "done" after return
    cmd,        \* main's std::string cmd
    eofbit,     \* std::cin's eofbit
    failbit,    \* std::cin's failbit
    now,        \* what time(NULL) returns
    trade_db,   \* the global std::vector<trade_op>
    list,       \* gbce.list, the std::vector<stock>
    out,        \* what the last process_command call printed
    nread,      \* the lines taken from the input so far
    rand_seq,   \* the sequence of values rand() returns in this build
    rand_pos    \* the rand() calls made so far

vars == <<pc, cmd, eofbit, failbit, now, trade_db, list, out, nread, rand_seq, rand_pos>>

(* ----------------------------- trade_op ------------------------------- *)

\* trade_op::trade_op with the two sides exchanged.
trade_op_SidesSwapped(sy, op, qty, pr, t) ==
    [ stamp     |-> t,
      symbol    |-> sy,
      operation |-> IF op = BUY_STOCK THEN SELL_STOCK ELSE BUY_STOCK,
      quantity  |-> qty,
      price     |-> pr ]

\* trade_op::trade_op, constructed at time t.
trade_op(sy, op, qty, pr, t) ==
    [ stamp     |-> t,
      symbol    |-> sy,
      operation |-> IF op = BUY_STOCK THEN BUY_STOCK ELSE SELL_STOCK,
      quantity  |-> qty,
      price     |-> pr ]

(* ------------------------------- stock -------------------------------- *)

\* stock::stock: the initial price is the par value.
stock(sy, ty, ld, fd, pv) ==
    [ symbol         |-> sy,
      type           |-> IF ty = PREF_STOCK THEN ty ELSE COMMON_STOCK,
      last_dividend  |-> ld,
      fixed_dividend |-> fd,
      par_value      |-> pv,
      price          |-> pv ]

get_dividend_yield(st) ==
    IF st.type = COMMON_STOCK THEN DDiv(st.last_dividend, st.price)
    ELSE IF st.type = PREF_STOCK THEN DDiv(st.fixed_dividend, st.price)
    ELSE Dbl(0)

get_pe_ratio(st) ==
    IF DTrue(st.last_dividend) THEN DDiv(st.price, st.last_dividend) ELSE Dbl(0)

\* The condition of set_price's inner if with > for >=.
InInterval_Strict(interval, t, op) == interval > t - op.stamp

\* The condition of set_price's inner if: the record is no older than interval.
InInterval(interval, t, op) == interval >= t - op.stamp

\* The while loop of set_price from record i on; acc holds trades, tq and q.
RECURSIVE set_price_scan(_, _, _, _, _, _)
set_price_scan(sy, db, interval, t, i, acc) ==
    IF i > Len(db) THEN acc
    ELSE IF sy = db[i].symbol /\ InInterval(interval, t, db[i])
         THEN Then([ trades |-> acc.trades + 1,
                     tq     |-> DAdd(acc.tq, DMul(Dbl(db[i].quantity), db[i].price)),
                     q      |-> DAdd(acc.q, Dbl(db[i].quantity)) ],
                   LAMBDA a : set_price_scan(sy, db, interval, t, i + 1, a))
         ELSE set_price_scan(sy, db, interval, t, i + 1, acc)

\* set_price falling back to the par value when there was no trading.
set_price_result_ParOnNoTrades(st, acc) ==
    IF acc.trades # 0 THEN DDiv(acc.tq, acc.q) ELSE st.par_value

\* The price set_price assigns once the scan found acc.
set_price_result(st, acc) ==
    IF acc.trades # 0 THEN DDiv(acc.tq, acc.q) ELSE st.price

\* set_price assigning the new price to the par value as well.
set_price_AlsoParValue(st, db, interval, t) ==
    LET acc == set_price_scan(st.symbol, db, interval, t, 1,
                              [trades |-> 0, tq |-> Dbl(0), q |-> Dbl(0)])
    IN  [st EXCEPT !.price = set_price_result(st, acc),
                   !.par_value = set_price_result(st, acc)]

\* stock::set_price over database db at time t: the stock afterwards.
set_price(st, db, interval, t) ==
    LET acc == set_price_scan(st.symbol, db, interval, t, 1,
                              [trades |-> 0, tq |-> Dbl(0), q |-> Dbl(0)])
    IN  [st EXCEPT !.price = set_price_result(st, acc)]

(* ------------------------------ the_index ----------------------------- *)

\* the_index::the_index: the sample table, in pounds.
the_index ==
    << stock(S_TEA, COMMON_STOCK, Dbl(0),        Dbl(0), Dbl(1)),
       stock(S_POP, COMMON_STOCK, Frac(8, 100),  Dbl(0), Dbl(1)),
       stock(S_ALE, COMMON_STOCK, Frac(23, 100), Dbl(0), Frac(60, 100)),
       stock(S_GIN, PREF_STOCK,   Frac(8, 100),  Dbl(2), Dbl(1)),
       stock(S_JOE, COMMON_STOCK, Frac(13, 100), Dbl(0), Frac(250, 100)) >>

exist(l, symbol) == \E i \in 1..Len(l) : symbol = l[i].symbol

\* the_index::trade's check without the test of the quantity.
trade_ok_NoQuantityTest(symbol, num, price) == ~(symbol = <<>> \/ DNeg(price))

\* Whether the_index::trade accepts its parameters.
trade_ok(symbol, num, price) == ~(symbol = <<>> \/ DNeg(price) \/ num < 0)

\* the_index::trade at time t: the database afterwards.
trade(db, symbol, op, num, price, t) ==
    IF trade_ok(symbol, num, price)
    THEN Append(db, trade_op(symbol, op, num, price, t))
    ELSE db

\* The value of the k-th rand() call (k = 0, 1, ...) in sequence rs.
rand(rs, k) == rs[(k % Len(rs)) + 1]

\* the_index::random_trade at time t, after k rand() calls.
random_trade(db, sym, rs, k, t) ==
    Append(db, trade_op(sym,
                        IF rand(rs, k) % 2 = 1 THEN BUY_STOCK ELSE SELL_STOCK,
                        1 + (rand(rs, k + 1) % 109),
                        DAdd(Frac(41, 100), Frac(rand(rs, k + 2) % 299, 100)),
                        t))

\* The trade command without its last random_trade call.
TradeSymbols_NoJoe == <<S_TEA, S_POP, S_ALE, S_GIN>>

\* The symbols process_command passes to random_trade, in order.
TradeSymbols == <<S_TEA, S_POP, S_ALE, S_GIN, S_JOE>>

\* The random_trade calls of the trade command from the i-th on, the first
\* of them made after k rand() calls.
RECURSIVE random_trades(_, _, _, _, _)
random_trades(db, rs, k, t, i) ==
    IF i > Len(TradeSymbols) THEN db
    ELSE random_trades(random_trade(db, TradeSymbols[i], rs, k + 3 * (i - 1), t),
                       rs, k, t, i + 1)

\* The factor get_index multiplies in for one price: zero prices are left out.
index_factor(tmp, num) == IF DTrue(num) THEN DMul(tmp, num) ELSE tmp

\* The while loop of get_index from entry i on.
RECURSIVE index_product(_, _, _)
index_product(l, i, tmp) ==
    IF i > Len(l) THEN tmp
    ELSE Then(index_factor(tmp, l[i].price),
              LAMBDA x : index_product(l, i + 1, x))

\* get_index counting only the entries it multiplied in.
index_degree_NonzeroOnly(l) == Cardinality({i \in 1..Len(l) : DTrue(l[i].price)})

\* The degree of the root get_index takes.
index_degree(l) == Len(l)

\* the_index::get_index: pow(tmp, 1.00 / num), kept as the radicand tmp and the
\* degree num of the root.
get_index(l) ==
    [radicand |-> index_product(l, 1, Dbl(1)), degree |-> index_degree(l)]

\* the_index::price: set_price(FIFTEEN_MINS) on each entry in turn.
price(l, db, t) == [i \in 1..Len(l) |-> set_price(l[i], db, FIFTEEN_MINS, t)]

(* --------------------------- process_command -------------------------- *)

\* What one process_command call printed: the message, the database size it
\* reported (0 when none), the numbers it printed, and for the index the
\* degree of the root (0 otherwise).
Printed(msg, count, nums, root) ==
    [msg |-> msg, count |-> count, nums |-> nums, root |-> root]

Prices(l) == [i \in 1..Len(l) |-> l[i].price]

\* The buy/sell branch on tokens c at time t: the database afterwards and the
\* message printed.
buy_sell(c, l, db, t) ==
    IF Len(c) > 3
    THEN IF ~exist(l, c[3])
         THEN [db |-> db, msg |-> "ERROR: Unknown symbol"]
         ELSE LET buy == IF c[1] = W_sell THEN 0 ELSE 1
                  qty == atoi(c[2])
                  pr  == atof(c[4])
                  db2 == trade(db, c[3], IF buy # 0 THEN BUY_STOCK ELSE SELL_STOCK,
                               qty, pr, t)
              IN  IF trade_ok(c[3], qty, pr)
                  THEN [db |-> db2, msg |-> "Done"]
                  ELSE [db |-> db, msg |-> "ERROR: Cannot"]
    ELSE [db |-> db, msg |-> "ERROR: syntax"]

\* The command words the dispatcher knows.
Commands ==
    {W_quit, W_help, W_index, W_trade, W_buy, W_sell, W_list, W_price, W_yield, W_pe}

\* process_command is running on a line whose first token is w.
Dispatch(w) ==
    /\ pc = "proc"
    /\ Len(Split(cmd)) > 0
    /\ Split(cmd)[1] = w

\* What a command that only prints leaves alone, returning true.
Returns(o) ==
    /\ out' = o
    /\ pc' = "read"
    /\ UNCHANGED <<cmd, eofbit, failbit, now, nread, rand_seq>>

CmdEmpty ==
    /\ pc = "proc"
    /\ Len(Split(cmd)) = 0
    /\ Returns(Printed("", 0, <<>>, 0))
    /\ UNCHANGED <<trade_db, list, rand_pos>>

CmdQuit ==
    /\ Dispatch(W_quit)
    /\ pc' = "done"
    /\ out' = Printed("", 0, <<>>, 0)
    /\ UNCHANGED <<cmd, eofbit, failbit, now, trade_db, list, nread, rand_seq, rand_pos>>

CmdHelp ==
    /\ Dispatch(W_help)
    /\ Returns(Printed("COMMANDS:", 0, <<>>, 0))
    /\ UNCHANGED <<trade_db, list, rand_pos>>

CmdIndex ==
    /\ Dispatch(W_index)
    /\ Returns(Printed("GBCE Index", 0, <<get_index(list).radicand>>,
                       get_index(list).degree))
    /\ UNCHANGED <<trade_db, list, rand_pos>>

CmdTrade ==
    /\ Dispatch(W_trade)
    /\ trade_db' = random_trades(trade_db, rand_seq, rand_pos, now, 1)
    /\ rand_pos' = rand_pos + 3 * Len(TradeSymbols)
    /\ Returns(Printed("Done", Len(trade_db'), <<>>, 0))
    /\ UNCHANGED list

CmdBuySell ==
    /\ Dispatch(W_buy) \/ Dispatch(W_sell)
    /\ \E c \in {Split(cmd)} : \E r \in {buy_sell(c, list, trade_db, now)} :
          /\ trade_db' = r.db
          /\ Returns(Printed(r.msg, IF r.msg = "Done" THEN Len(r.db) ELSE 0, <<>>, 0))
    /\ UNCHANGED <<list, rand_pos>>

CmdList ==
    /\ Dispatch(W_list)
    /\ Returns(Printed("trading operations", Len(trade_db), <<>>, 0))
    /\ UNCHANGED <<trade_db, list, rand_pos>>

CmdPrice ==
    /\ Dispatch(W_price)
    /\ list' = price(list, trade_db, now)
    /\ Returns(Printed("Price of", 0, Prices(list'), 0))
    /\ UNCHANGED <<trade_db, rand_pos>>

CmdYield ==
    /\ Dispatch(W_yield)
    /\ Returns(Printed("Dividend Yield of", 0,
                       [i \in 1..Len(list) |-> get_dividend_yield(list[i])], 0))
    /\ UNCHANGED <<trade_db, list, rand_pos>>

CmdPe ==
    /\ Dispatch(W_pe)
    /\ Returns(Printed("Price/Earnings Ratio of", 0,
                       [i \in 1..Len(list) |-> get_pe_ratio(list[i])], 0))
    /\ UNCHANGED <<trade_db, list, rand_pos>>

CmdUnknown ==
    /\ pc = "proc"
    /\ Len(Split(cmd)) > 0
    /\ Split(cmd)[1] \notin Commands
    /\ Returns(Printed("ERROR: Unknown command", 0, <<>>, 0))
    /\ UNCHANGED <<trade_db, list, rand_pos>>

process_command ==
    \/ CmdEmpty
    \/ CmdQuit
    \/ CmdHelp
    \/ CmdIndex
    \/ CmdTrade
    \/ CmdBuySell
    \/ CmdList
    \/ CmdPrice
    \/ CmdYield
    \/ CmdPe
    \/ CmdUnknown

(* -------------------------------- main -------------------------------- *)

\* The records processing the line would add to the database.
Appends(line) ==
    LET c == Split(line)
    IN  IF Len(c) = 0 THEN 0
        ELSE IF c[1] = W_trade THEN Len(TradeSymbols)
        ELSE IF c[1] \in {W_buy, W_sell}
             THEN Len(buy_sell(c, list, trade_db, now).db) - Len(trade_db)
        ELSE 0

\* getline(std::cin, cmd) reads a line that ends in a newline.
GetLine ==
    /\ pc = "read"
    /\ ~eofbit /\ ~failbit
    /\ nread < MaxLines
    /\ \E line \in Lines, d \in Delays :
          /\ now + d <= MaxTime
          /\ now' = now + d
          /\ cmd' = line
    /\ nread' = nread + 1
    /\ pc' = "proc"
    /\ UNCHANGED <<eofbit, failbit, trade_db, list, out, rand_seq, rand_pos>>

\* getline reads the last line of the input, which ends without a newline:
\* the line is stored and eofbit is set.  (A last line that adds records would
\* be processed again and again and grow the database without bound; the
\* model leaves those inputs out.)
GetLineLast ==
    /\ pc = "read"
    /\ ~eofbit /\ ~failbit
    /\ nread < MaxLines
    /\ \E line \in Lines \ {<<>>}, d \in Delays :
          /\ now + d <= MaxTime
          /\ Appends(line) = 0
          /\ now' = now + d
          /\ cmd' = line
    /\ nread' = nread + 1
    /\ eofbit' = TRUE
    /\ pc' = "proc"
    /\ UNCHANGED <<failbit, trade_db, list, out, rand_seq, rand_pos>>

\* getline finds the input at its end: cmd is erased, no character is
\* extracted, eofbit and failbit are set.
GetLineEnd ==
    /\ pc = "read"
    /\ ~eofbit /\ ~failbit
    /\ \E d \in Delays :
          /\ now + d <= MaxTime
          /\ now' = now + d
    /\ cmd' = <<>>
    /\ eofbit' = TRUE
    /\ failbit' = TRUE
    /\ pc' = "proc"
    /\ UNCHANGED <<trade_db, list, out, nread, rand_seq, rand_pos>>

\* getline on a stream that is not good(): the sentry fails, failbit is set
\* and cmd keeps the line it held.  The call does not block: it returns
\* within the same second.
GetLineFail ==
    /\ pc = "read"
    /\ eofbit \/ failbit
    /\ failbit' = TRUE
    /\ pc' = "proc"
    /\ UNCHANGED <<cmd, eofbit, now, trade_db, list, out, nread, rand_seq, rand_pos>>

Init ==
    /\ pc = "read"
    /\ cmd = <<>>
    /\ eofbit = FALSE
    /\ failbit = FALSE
    /\ now = 0
    /\ trade_db = <<>>
    /\ list = the_index
    /\ out = Printed("", 0, <<>>, 0)
    /\ nread = 0
    /\ rand_seq \in RandSeqs
    /\ rand_pos = 0

Next ==
    \/ GetLine
    \/ GetLineLast
    \/ GetLineEnd
    \/ GetLineFail
    \/ process_command

Spec == Init /\ [][Next]_vars

\* main runs whenever it can take a step: nothing but the blocking read
\* suspends it, and the read returns at once when the input has ended.
FairSpec == Spec /\ WF_vars(Next)

(* ------------------------------- claims ------------------------------- *)

\* The words the claims are stated in.
FirstToken(line) == IF Len(Split(line)) = 0 THEN <<>> ELSE Split(line)[1]

FiveSymbols == {S_TEA, S_POP, S_ALE, S_GIN, S_JOE}

IsPrefix(a, b) == Len(a) <= Len(b) /\ SubSeq(b, 1, Len(a)) = a

Zero == [n |-> 0, d |-> 1]

\* x > 0 and x >= 0 as real numbers: both false for NaN.
DPos(x) == x.n > 0

DNonNeg(x) == ~IsNaN(x) /\ x.n >= 0

\* The records of db for symbol sy whose age at time t is at most w seconds.
InWindow(db, sy, t, w) ==
    {k \in 1..Len(db) : db[k].symbol = sy /\ t - db[k].stamp <= w}

RECURSIVE SumQtyPrice(_, _)
SumQtyPrice(db, K) ==
    IF K = {} THEN Zero
    ELSE LET k == CHOOSE x \in K : TRUE
         IN  DAdd(DMul(Dbl(db[k].quantity), db[k].price), SumQtyPrice(db, K \ {k}))

RECURSIVE SumQty(_, _)
SumQty(db, K) ==
    IF K = {} THEN 0
    ELSE LET k == CHOOSE x \in K : TRUE
         IN  db[k].quantity + SumQty(db, K \ {k})

\* The product of the prices of the entries of l in K, a zero price counting as 1.
RECURSIVE ProductNonzero(_, _)
ProductNonzero(l, K) ==
    IF K = {} THEN Dbl(1)
    ELSE LET k == CHOOSE x \in K : TRUE
         IN  DMul(IF l[k].price = Zero THEN Dbl(1) ELSE l[k].price,
                  ProductNonzero(l, K \ {k}))

\* C1: once the input is exhausted the program eventually exits, and the loop
\* ends only on a line whose first token is quit or at the end of the input.
C1_ExitsAtEndOfInput ==
    /\ [][pc' = "done" /\ pc # "done" => FirstToken(cmd) = W_quit \/ eofbit]_vars
    /\ eofbit ~> (pc = "done")

\* C2: in every reachable state the current price of every stock entry is a
\* real number strictly greater than 0.
C2_PricesPositive ==
    \A i \in 1..Len(list) : DPos(list[i].price)

\* C3: every record of the trade log has quantity >= 0, price >= 0 and a
\* non-empty symbol.
C3_RecordsValid ==
    \A k \in 1..Len(trade_db) :
        /\ trade_db[k].quantity >= 0
        /\ DNonNeg(trade_db[k].price)
        /\ trade_db[k].symbol # <<>>

\* A buy/sell line that is rejected: fewer than three arguments after the
\* command word, a symbol outside the index, or a negative quantity or price.
RejectedBuySell(line) ==
    LET c == Split(line)
    IN  /\ FirstToken(line) \in {W_buy, W_sell}
        /\ \/ Len(c) - 1 < 3
           \/ c[3] \notin FiveSymbols
           \/ atoi(c[2]) < 0
           \/ DNeg(atof(c[4]))

\* C4: a rejected buy/sell command leaves the trade log and every stock as
\* they were, and process_command returns true.
C4_RejectedTakesNoAction ==
    [][pc = "proc" /\ RejectedBuySell(cmd)
         => trade_db' = trade_db /\ list' = list /\ pc' = "read"]_vars

C4_Witness ==
    /\ pc = "read"
    /\ out.msg = "ERROR: Cannot"
    /\ RejectedBuySell(cmd)
    /\ atoi(Split(cmd)[2]) < 0
    /\ Len(trade_db) > 0

\* A line "buy <qty> <symbol> <price>" or "sell ..." with a symbol of the
\* index, qty >= 0 and price >= 0.
AcceptedBuySell(line) ==
    LET c == Split(line)
    IN  /\ FirstToken(line) \in {W_buy, W_sell}
        /\ Len(c) = 4
        /\ c[3] \in FiveSymbols
        /\ atoi(c[2]) >= 0
        /\ DNonNeg(atof(c[4]))

\* C5: an accepted buy/sell command appends exactly one record to the end of
\* the trade log, with the given symbol, quantity and price, and the side BUY
\* for buy and SELL for sell.
C5_AcceptedAppendsOne ==
    [][pc = "proc" /\ AcceptedBuySell(cmd)
         => /\ Len(trade_db') = Len(trade_db) + 1
            /\ IsPrefix(trade_db, trade_db')
            /\ LET c == Split(cmd)
                   r == trade_db'[Len(trade_db')]
               IN  /\ r.symbol = c[3]
                   /\ r.quantity = atoi(c[2])
                   /\ r.price = atof(c[4])
                   /\ r.operation = (IF c[1] = W_buy THEN BUY_STOCK ELSE SELL_STOCK)]_vars

C5_Witness ==
    /\ pc = "read"
    /\ AcceptedBuySell(cmd)
    /\ FirstToken(cmd) = W_sell
    /\ out.msg = "Done"
    /\ out.count = Len(trade_db)
    /\ Len(trade_db) > 1
    /\ trade_db[Len(trade_db)].operation = SELL_STOCK

\* C6: the price command sets each stock's price to (sum of quantity*price) /
\* (sum of quantity) over exactly the records of its symbol whose age is at
\* most 900 seconds (a stock with no such record is the case of C7).
C6_PriceIsWindowAverage ==
    [][pc = "proc" /\ FirstToken(cmd) = W_price
         => \A i \in 1..Len(list) :
               LET K == InWindow(trade_db, list[i].symbol, now, 900)
               IN  K # {} =>
                     list'[i].price =
                        DDiv(SumQtyPrice(trade_db, K), Dbl(SumQty(trade_db, K)))]_vars

\* After a price command: a stock with one record inside the window, which
\* alone made its price, and one of age 901 seconds, at another price.
C6_Witness ==
    /\ pc = "read"
    /\ out.msg = "Price of"
    /\ \E i \in 1..Len(list) : \E a, b \in 1..Len(trade_db) :
          /\ trade_db[a].symbol = list[i].symbol
          /\ trade_db[b].symbol = list[i].symbol
          /\ now - trade_db[a].stamp <= 900
          /\ now - trade_db[b].stamp = 901
          /\ trade_db[a].quantity > 0
          /\ trade_db[b].quantity > 0
          /\ trade_db[a].price # trade_db[b].price
          /\ InWindow(trade_db, list[i].symbol, now, 900) = {a}
          /\ list[i].price = trade_db[a].price

\* C7: a price command that finds no record of a stock's symbol inside the
\* window leaves that stock's price as it was.
C7_NoTradesKeepsPrice ==
    [][pc = "proc" /\ FirstToken(cmd) = W_price
         => \A i \in 1..Len(list) :
               InWindow(trade_db, list[i].symbol, now, 900) = {}
                  => list'[i].price = list[i].price]_vars

\* After a price command: a stock whose trades have all aged out of the window
\* and whose price is still the one computed from them, not its par value.
C7_Witness ==
    /\ pc = "read"
    /\ out.msg = "Price of"
    /\ \E i \in 1..Len(list) :
          /\ InWindow(trade_db, list[i].symbol, now, 900) = {}
          /\ \E k \in 1..Len(trade_db) :
                /\ trade_db[k].symbol = list[i].symbol
                /\ list[i].price = trade_db[k].price
          /\ list[i].price # list[i].par_value
          /\ list[i].price # Zero

\* C8: the trade log is append-only; only buy, sell and trade extend it, and
\* trade extends it by exactly five records, for TEA, POP, ALE, GIN and JOE.
C8_LogAppendOnly ==
    [][/\ IsPrefix(trade_db, trade_db')
       /\ trade_db' # trade_db
            => pc = "proc" /\ FirstToken(cmd) \in {W_buy, W_sell, W_trade}
       /\ pc = "proc" /\ FirstToken(cmd) = W_trade
            => /\ Len(trade_db') = Len(trade_db) + 5
               /\ {trade_db'[k].symbol : k \in Len(trade_db) + 1 .. Len(trade_db')}
                     = FiveSymbols]_vars

C8_Witness ==
    /\ pc = "read"
    /\ FirstToken(cmd) = W_trade
    /\ Len(trade_db) > 5
    /\ trade_db[1].symbol = S_ALE
    /\ {trade_db[k].symbol : k \in Len(trade_db) - 4 .. Len(trade_db)} = FiveSymbols

\* The seed table of the specification: symbol, class, last dividend, fixed
\* dividend, par value.
SeedTable ==
    << <<S_TEA, 0, [n |-> 0,  d |-> 1],   [n |-> 0, d |-> 1], [n |-> 1, d |-> 1]>>,
       <<S_POP, 0, [n |-> 2,  d |-> 25],  [n |-> 0, d |-> 1], [n |-> 1, d |-> 1]>>,
       <<S_ALE, 0, [n |-> 23, d |-> 100], [n |-> 0, d |-> 1], [n |-> 3, d |-> 5]>>,
       <<S_GIN, 1, [n |-> 2,  d |-> 25],  [n |-> 2, d |-> 1], [n |-> 1, d |-> 1]>>,
       <<S_JOE, 0, [n |-> 13, d |-> 100], [n |-> 0, d |-> 1], [n |-> 5, d |-> 2]>> >>

SeedFields(l) ==
    /\ Len(l) = 5
    /\ \A i \in 1..5 :
          /\ l[i].symbol = SeedTable[i][1]
          /\ l[i].type = SeedTable[i][2]
          /\ l[i].last_dividend = SeedTable[i][3]
          /\ l[i].fixed_dividend = SeedTable[i][4]
          /\ l[i].par_value = SeedTable[i][5]

\* C9: the index always holds the five seeded entries, each starting at its
\* par value; only the price command changes an entry, and it changes nothing
\* but the current price.
C9_IndexFixed ==
    /\ \A i \in 1..Len(list) : list[i].price = list[i].par_value
    /\ []SeedFields(list)
    /\ [][list' # list => pc = "proc" /\ FirstToken(cmd) = W_price]_vars

C9_Witness ==
    /\ pc = "read"
    /\ out.msg = "Price of"
    /\ SeedFields(list)
    /\ \E i \in 1..Len(list) : list[i].price # list[i].par_value

\* C10: the index command reports the N-th root of the product of the nonzero
\* current prices, with N = 5 whether or not a price is zero.
C10_IndexRoot ==
    out.msg = "GBCE Index"
       => /\ out.nums = <<ProductNonzero(list, 1..5)>>
          /\ out.root = 5

C10_Witness ==
    /\ out.msg = "GBCE Index"
    /\ out.root = 5
    /\ \E i \in 1..Len(list) : list[i].price = Zero
    /\ out.nums[1] # Zero

====
